---- MODULE Spec2Model ----
(***************************************************************************)
(* A model of ensembldb3's sequence assembly (src/src/ensembldb3/          *)
(* sequence.py) and of the syntenic block construction                     *)
(* (src/ensembldb/related_region.py).                                      *)
(*                                                                         *)
(* The specifications that share the module:                               *)
(*   SpecAsm  the pure assembler _assemble_seq on bounded inputs           *)
(*   SpecSeq  get_sequence: direct assembly, the lower-rank fallback       *)
(*   SpecAln  SyntenicRegions: lazily resolved members, get_alignment      *)
(*   SpecFlt  the tail of get_alignment (orientation, redundant columns)    *)
(*   SpecCig  slice_cigar on bounded cigar lines                           *)
(*   SpecLv   FeatureCoordLevelsCache called by concurrent callers         *)
(*   SpecLoc  the offsets and locations computed for a block's members     *)
(*   SpecNew  the construction of a SyntenicRegions block                  *)
(***************************************************************************)
EXTENDS Integers, Sequences, FiniteSets, TLC

VARIABLES
    asmIn,      \* the arguments of one _assemble_seq call
    asmOut      \* its outcome, or the record of kind "none" before the call

asmVars == <<asmIn, asmOut>>

VARIABLES
    sqReq,      \* the caller's arguments of get_sequence
    sqCorrupt,  \* the assembly mapping whose rows overlap: "none", "direct",
                \* "lower" (query to intermediate rank) or "nested"
    sqPc,       \* where get_sequence is
    sqCoord,    \* get_sequence's local coord
    sqStrand,   \* get_sequence's local strand
    sqDirect,   \* the outcome of the try block (line 159)
    sqConv,     \* the locals of get_lower_coord_conversion while it runs
    sqLower,    \* the segment pairs _get_sequence_from_lower_assembly holds
    sqOut,      \* the outcome of get_sequence (the pending sequence before line 165)
    sqRc,       \* history: how often line 166 reversed the result
    sqQueried,  \* history: the strands of the coordinates given to the mapper
    sqHanded,   \* history: the frag_positions get_sequence's two paths handed to
                \* _assemble_seq (lines 111 and 139)
    sqFellBack  \* history: whether line 163 ran

sqVars == <<sqReq, sqCorrupt, sqPc, sqCoord, sqStrand, sqDirect, sqConv, sqLower,
            sqOut, sqRc, sqQueried, sqHanded, sqFellBack>>

VARIABLES
    members,        \* SyntenicRegions.members, the reference member first
    record,         \* per member, its genomic_align row: dnafrag_start,
                    \* dnafrag_end, dnafrag_strand and the stored cigar line
    ref_location,   \* SyntenicRegions.ref_location
    unmapped,       \* the members whose genome has no assembly for their region
    Region,         \* per member, _cached['Region']
    aln_map,        \* per member, SyntenicRegion.aln_map
    aln_loc,        \* per member, SyntenicRegion.aln_loc
    cigar_line,     \* per member, _cached['cigar_line']
    AlignedSeq,     \* per member, _cached['AlignedSeq']
    CigarBounds,    \* the block's _cached['CigarStart'] and _cached['CigarEnd']
    do_rc,          \* SyntenicRegions._do_rc
    alnSliced,      \* history: the slice_cigar calls made, in order
    alnResult       \* the outcome of the last get_alignment call

alnVars == <<members, record, ref_location, unmapped, Region, aln_map, aln_loc,
             cigar_line, AlignedSeq, CigarBounds, do_rc, alnSliced, alnResult>>

VARIABLES
    callIn,     \* the arguments of one call of a function that touches no object
    callOut     \* what the call returned, <<>> before it

callVars == <<callIn, callOut>>

VARIABLES
    species_feature_levels, \* FeatureCoordLevelsCache._species_feature_levels,
                            \* the entry of the one species asked about
    species_feature_dbs,    \* FeatureCoordLevelsCache._species_feature_dbs, the
                            \* entry of that species
    lvCall,                 \* per caller, the FeatureCoordLevelsCache call it is
                            \* in: position, arguments, outcome, mapping returned
    lvQueried               \* history: per database, the meta_coord queries made

lvVars == <<species_feature_levels, species_feature_dbs, lvCall, lvQueried>>

vars == <<asmVars, sqVars, alnVars, callVars, lvVars>>

\* what the steps of one specification leave alone: the others' variables
OutsideAsm == <<sqVars, alnVars, callVars, lvVars>>
OutsideSeq == <<asmVars, alnVars, callVars, lvVars>>
OutsideAln == <<asmVars, sqVars, callVars, lvVars>>
OutsideCall == <<asmVars, sqVars, alnVars, lvVars>>
OutsideLv == <<asmVars, sqVars, alnVars, callVars>>

----------------------------------------------------------------------------
(* Bounds *)

\* coordinates of the assembler inputs range over 0..MaxPos
MaxPos == 3
\* the assembler is given at most MaxFrags fragments
MaxFrags == 2
\* the intervals requested from get_sequence lie in 0..MaxCoord
MaxCoord == 2
\* a mapping returns at most MaxSegs segment pairs
MaxSegs == 2
\* coordinate-system ranks are 1..MaxRank
MaxRank == 4

----------------------------------------------------------------------------
(* Outcomes of a call: a returned value or the exception that left it *)

NoOutcome == [kind |-> "none", seq |-> <<>>]
Returned(s) == [kind |-> "seq", seq |-> s]
Raised(e) == [kind |-> e, seq |-> <<>>]

----------------------------------------------------------------------------
(* The values of a component that is not running *)

Coordinate(start, end, strand) == [start |-> start, end |-> end, strand |-> strand]
NoCoordinate == Coordinate(0, 0, 0)

NoConversion ==
    [query_rank |-> 0, seq_level_rank |-> 0, present |-> {}, rank |-> 0,
     tried |-> <<>>]

AsmIdle ==
    /\ asmIn = [start |-> 0, end |-> 0, frag_positions |-> <<>>, frags |-> <<>>]
    /\ asmOut = NoOutcome

SqIdle ==
    /\ sqReq = [mode |-> "coord", start |-> 0, end |-> 0, strand |-> 1]
    /\ sqCorrupt = "none"
    /\ sqPc = "idle"
    /\ sqCoord = NoCoordinate
    /\ sqStrand = 0
    /\ sqDirect = NoOutcome
    /\ sqConv = NoConversion
    /\ sqLower = <<>>
    /\ sqOut = NoOutcome
    /\ sqRc = 0
    /\ sqQueried = {}
    /\ sqHanded = <<>>
    /\ sqFellBack = FALSE

\* a value that is not there yet (a key missing from _cached, an attribute
\* still None) and one that is
Unset == <<>>
Cached(value) == <<value>>
Value(cached) == cached[1]

NoResult == [kind |-> "none", names |-> <<>>, seqs |-> <<>>]

CallIdle ==
    /\ callIn = <<>>
    /\ callOut = <<>>

LvIdle ==
    /\ species_feature_levels = <<>>
    /\ species_feature_dbs = <<>>
    /\ lvCall = <<>>
    /\ lvQueried = <<>>

AlnIdle ==
    /\ members = <<>>
    /\ record = <<>>
    /\ ref_location = NoCoordinate
    /\ unmapped = {}
    /\ Region = <<>>
    /\ aln_map = <<>>
    /\ aln_loc = <<>>
    /\ cigar_line = <<>>
    /\ AlignedSeq = <<>>
    /\ CigarBounds = Unset
    /\ do_rc = Unset
    /\ alnSliced = <<>>
    /\ alnResult = NoResult

----------------------------------------------------------------------------
(* DNA strings: sequences of one-letter strings *)

RECURSIVE Repeat(_, _)
\* Python's  c * n  for a one-letter string c: empty when n <= 0
Repeat(c, n) == IF n <= 0 THEN <<>> ELSE <<c>> \o Repeat(c, n - 1)

\* the base stored in the dna table at sequence-level position p
BaseAt(p) == IF p % 2 = 0 THEN "A" ELSE "C"

RECURSIVE Substr(_, _)
\* substr(dna.c.sequence, start, length): the bases of [p, p + n)
Substr(p, n) == IF n <= 0 THEN <<>> ELSE <<BaseAt(p)>> \o Substr(p + 1, n - 1)

Complement(c) ==
    CASE c = "A" -> "T"
      [] c = "T" -> "A"
      [] c = "C" -> "G"
      [] c = "G" -> "C"
      [] OTHER -> c

\* Sequence.rc(): reverse and complement
Rc(s) == [i \in 1..Len(s) |-> Complement(s[Len(s) + 1 - i])]

----------------------------------------------------------------------------
(* _assemble_seq, sequence.py:24-41 *)

RECURSIVE AssembleLoop(_, _, _, _, _)
\* the for loop of lines 31-37 from fragment `index` on: the assembled pieces
\* so far and prev_end, or the assertion of line 33 failing
AssembleLoop(frags, frag_positions, index, prev_end, assembled) ==
    IF index > Len(frag_positions)
    THEN [ok |-> TRUE, assembled |-> assembled, prev_end |-> prev_end]
    ELSE LET frag_start == frag_positions[index][1]
             frag_end == frag_positions[index][2]
             diff == frag_start - prev_end
         IN IF diff < 0
            THEN [ok |-> FALSE, assembled |-> assembled, prev_end |-> prev_end]
            ELSE AssembleLoop(frags, frag_positions, index + 1, frag_end,
                              assembled \o Repeat("N", diff) \o frags[index])

\* the assertions of lines 33 and 39 left out
AssembleNoAsserts(frags, start, end, frag_positions) ==
    IF Len(frag_positions) # Len(frags)
    THEN Raised("AssertionError")
    ELSE IF Len(frag_positions) = 0
         THEN Raised("UnboundLocalError")
         ELSE LET Pieces[i \in 0..Len(frags)] ==
                      IF i = 0 THEN <<>>
                      ELSE Pieces[i - 1]
                           \o Repeat("N", frag_positions[i][1]
                                  - (IF i = 1 THEN start ELSE frag_positions[i - 1][2]))
                           \o frags[i]
              IN Returned(Pieces[Len(frags)]
                          \o Repeat("N", end - frag_positions[Len(frags)][2]))

assemble_seq(frags, start, end, frag_positions) ==
    IF Len(frag_positions) # Len(frags)
    THEN Raised("AssertionError")                                   \* line 27
    ELSE LET loop == AssembleLoop(frags, frag_positions, 1, start, <<>>)
         IN IF ~loop.ok
            THEN Raised("AssertionError")                           \* line 33
            ELSE IF Len(frag_positions) = 0
                 THEN Raised("UnboundLocalError")                   \* line 38
                 ELSE LET diff == end - loop.prev_end
                      IN IF diff < 0
                         THEN Raised("AssertionError")              \* line 39
                         ELSE Returned(loop.assembled \o Repeat("N", diff))

----------------------------------------------------------------------------
(* SpecAsm: one call of the assembler on inputs drawn from bounded sets *)

Positions == 0..MaxPos

\* a fragment position (frag_start, frag_end), frag_start <= frag_end
FragPositions == {p \in Positions \X Positions : p[1] <= p[2]}

RECURSIVE SeqsUpTo(_, _)
\* the sequences over S of length at most n
SeqsUpTo(S, n) ==
    IF n = 0 THEN {<<>>}
    ELSE LET shorter == SeqsUpTo(S, n - 1)
         IN shorter \cup {Append(s, x) : s \in {t \in shorter : Len(t) = n - 1}, x \in S}

\* each fragment's sequence is as long as its interval
FragsFor(frag_positions) ==
    [i \in 1..Len(frag_positions) |->
        Substr(frag_positions[i][1], frag_positions[i][2] - frag_positions[i][1])]

InitAsm ==
    /\ SqIdle
    /\ AlnIdle
    /\ CallIdle
    /\ LvIdle
    /\ \E start \in Positions, end \in Positions, fp \in SeqsUpTo(FragPositions, MaxFrags) :
         /\ start <= end
         /\ \E extra \in BOOLEAN :
              asmIn = [start |-> start, end |-> end, frag_positions |-> fp,
                       frags |-> IF extra THEN Append(FragsFor(fp), <<"A">>)
                                 ELSE FragsFor(fp)]
    /\ asmOut = NoOutcome

AssembleSeq ==
    /\ asmOut.kind = "none"
    /\ asmOut' = assemble_seq(asmIn.frags, asmIn.start, asmIn.end, asmIn.frag_positions)
    /\ UNCHANGED asmIn
    /\ UNCHANGED OutsideAsm

NextAsm == AssembleSeq

SpecAsm == InitAsm /\ [][NextAsm]_vars

AsmCalled == asmOut.kind # "none"
AsmCountsMatch == Len(asmIn.frags) = Len(asmIn.frag_positions)

\* some fragment starts before the end of the fragment listed before it
AsmOverlapsPredecessor ==
    \E i \in 2..Len(asmIn.frag_positions) :
        asmIn.frag_positions[i][1] < asmIn.frag_positions[i - 1][2]

\* the first fragment starts before the requested start
AsmStartsBeforeRequest ==
    /\ Len(asmIn.frag_positions) >= 1
    /\ asmIn.frag_positions[1][1] < asmIn.start

\* the last fragment ends after the requested end
AsmEndsAfterRequest ==
    /\ Len(asmIn.frag_positions) >= 1
    /\ asmIn.frag_positions[Len(asmIn.frag_positions)][2] > asmIn.end

\* an ordered, non-overlapping fragment list lying inside [start, end)
AsmValidFragments ==
    /\ AsmCountsMatch
    /\ ~AsmOverlapsPredecessor
    /\ \A i \in 1..Len(asmIn.frag_positions) :
         /\ asmIn.start <= asmIn.frag_positions[i][1]
         /\ asmIn.frag_positions[i][2] <= asmIn.end

\* C1: for every valid fragment list, the empty one included, the assembler
\* returns a sequence of length end - start.
C1_AssembledLengthIsRequested ==
    (AsmCalled /\ AsmValidFragments)
        => /\ asmOut.kind = "seq"
           /\ Len(asmOut.seq) = asmIn.end - asmIn.start

\* C2 as stated, on the non-empty fragment lists (C1 covers the empty one): the
\* assembler fails with the assertion error exactly when a fragment starts
\* before the end of its predecessor in the list, and returns a sequence for
\* every other input.
C2_FailsIffOverlapsPredecessor ==
    (AsmCalled /\ AsmCountsMatch /\ Len(asmIn.frag_positions) >= 1)
        => /\ (asmOut.kind = "AssertionError") <=> AsmOverlapsPredecessor
           /\ ~AsmOverlapsPredecessor => asmOut.kind = "seq"

\* C2 amended: with one fragment per position the assembler fails with the
\* assertion error exactly when a fragment starts before the previous end (the
\* requested start for the first fragment) or the last fragment ends after the
\* requested end; the empty list leaves with the unbound-name error; every
\* other input returns a sequence.
C2_FailsIffInconsistent ==
    (AsmCalled /\ AsmCountsMatch)
        => /\ (asmOut.kind = "AssertionError")
                <=> (AsmOverlapsPredecessor \/ AsmStartsBeforeRequest
                        \/ AsmEndsAfterRequest)
           /\ (asmOut.kind = "UnboundLocalError") <=> (Len(asmIn.frag_positions) = 0)
           /\ asmOut.kind \in {"AssertionError", "UnboundLocalError", "seq"}

\* an assembly of two fragments refused because the second overlaps the first
C2_Witness ==
    /\ AsmCalled /\ AsmCountsMatch
    /\ Len(asmIn.frag_positions) = 2
    /\ AsmOverlapsPredecessor
    /\ ~AsmStartsBeforeRequest /\ ~AsmEndsAfterRequest
    /\ asmOut.kind = "AssertionError"

----------------------------------------------------------------------------
(* Coordinates and the assembly mapper *)

Strands == {1, -1}

\* len(coord)
CoordLen(coord) == coord.end - coord.start

\* Coordinate.ensembl_start: the 1-based inclusive start of a 0-based interval
EnsemblStart(coord) == coord.start + 1

\* the segment pairs (q_loc, t_loc) a mapping of coord can hold: q_loc a
\* non-empty part of coord on coord's strand, t_loc as long as q_loc
SegmentPairs(coord) ==
    {[q |-> Coordinate(a, b, coord.strand), t |-> Coordinate(a, b, s)] :
        a \in coord.start..coord.end, b \in coord.start..coord.end, s \in Strands}

\* whether the mapper can list segment pair sp right after the pairs of
\* `pairs`: in ascending query start, and overlapping its predecessor only when
\* the assembly table's rows are corrupt
MayFollow(pairs, sp, corrupt) ==
    \/ pairs = <<>>
    \/ /\ pairs[Len(pairs)].q.start <= sp.q.start
       /\ corrupt \/ pairs[Len(pairs)].q.end <= sp.q.start

RECURSIVE MappingsUpTo(_, _, _)
\* the mapper's lists of at most n segment pairs drawn from S
MappingsUpTo(S, n, corrupt) ==
    IF n = 0 THEN {<<>>}
    ELSE LET shorter == MappingsUpTo(S, n - 1, corrupt)
         IN shorter \cup
            UNION {{Append(pairs, sp) : sp \in {x \in S : MayFollow(pairs, x, corrupt)}} :
                      pairs \in {t \in shorter : Len(t) = n - 1}}

\* get_coord_conversion(coord, coord_type, core_db): the results the assembly
\* table can give for coord
get_coord_conversion(coord, corrupt) ==
    MappingsUpTo({sp \in SegmentPairs(coord) : sp.q.start < sp.q.end}, MaxSegs, corrupt)

----------------------------------------------------------------------------
(* _get_sequence_from_direct_assembly, sequence.py:77-111 *)

\* substr(dna.c.sequence, t_loc.ensembl_start, length): SQL counts from 1
FetchFragment(t_loc) == Substr(EnsemblStart(t_loc) - 1, CoordLen(t_loc))

\* line 81: coord.strand = 1
ForwardStrand(coord) == [coord EXCEPT !.strand = 1]

\* the positions appended at the front of the list
FragmentPositionsPrepended(assemblies) ==
    [i \in 1..Len(assemblies) |->
        <<assemblies[Len(assemblies) + 1 - i].q.start,
          assemblies[Len(assemblies) + 1 - i].q.end>>]

\* lines 110 and 137: positions.append((q_loc.start, q_loc.end))
FragmentPositions(assemblies) ==
    [i \in 1..Len(assemblies) |-> <<assemblies[i].q.start, assemblies[i].q.end>>]

\* whether lines 91-110 reach the call of _assemble_seq at line 111
ReachesAssembler(assemblies) ==
    /\ assemblies # <<>>
    /\ \A i \in 1..Len(assemblies) : assemblies[i].q.strand = 1

\* lines 91-111 for the coordinate as queried and the mapper's answer
direct_assembly(coord, assemblies) ==
    IF assemblies = <<>>
    THEN Raised("NoItemError")                                      \* lines 91-92
    ELSE IF \E i \in 1..Len(assemblies) : assemblies[i].q.strand # 1
         THEN Raised("AssertionError")                              \* line 97
         ELSE LET seqs == [i \in 1..Len(assemblies) |->
                              IF assemblies[i].t.strand = -1
                              THEN Rc(FetchFragment(assemblies[i].t))
                              ELSE FetchFragment(assemblies[i].t)]
                  positions == FragmentPositions(assemblies)
              IN assemble_seq(seqs, coord.start, coord.end, positions)

----------------------------------------------------------------------------
(* get_lower_coord_conversion, sequence.py:51-74 *)

\* the coord_system table of a species as the loop reads it: the rank of the
\* query's system, the rank of the sequence-level system, and the ranks from
\* the one to the other that name a coordinate system
RankTables ==
    {[query_rank |-> q, seq_level_rank |-> sl, present |-> pr \cup {q, sl}] :
        q \in 1..MaxRank, sl \in 1..MaxRank, pr \in SUBSET (1..MaxRank)}

CoordSystems ==
    {cs \in RankTables :
        /\ cs.query_rank <= cs.seq_level_rank
        /\ cs.present \subseteq (cs.query_rank..cs.seq_level_rank)}

\* range(query_rank + 1, seq_level_rank) with the upper end included
RangeEndInclusive(conv) == conv.rank <= conv.seq_level_rank

\* line 57: range(query_rank + 1, seq_level_rank) has a next rank
RangeHasNext(conv) == conv.rank < conv.seq_level_rank

\* lines 58-66: the rank names a coordinate system
RankHasSystem(conv) == conv.rank \in conv.present

----------------------------------------------------------------------------
(* _get_sequence_from_lower_assembly, sequence.py:124-139 *)

RECURSIVE DirectOutcomes(_, _, _)
\* for each segment pair from `index` on, every outcome line 127 can have:
\* _get_sequence_from_direct_assembly(t_loc), whatever the mapper answers
DirectOutcomes(assemblies, index, corrupt) ==
    IF index > Len(assemblies) THEN <<>>
    ELSE LET t_loc == ForwardStrand(assemblies[index].t)                \* line 81
         IN <<{direct_assembly(t_loc, a) :
                  a \in get_coord_conversion(t_loc, corrupt)}>>
            \o DirectOutcomes(assemblies, index + 1, corrupt)

RECURSIVE LowerFetch(_, _, _, _, _)
\* the loop of lines 125-137 from segment pair `index` on, then line 139: every
\* outcome it can have, with the number of target coordinates handed to
\* _get_sequence_from_direct_assembly and whether line 139 was reached;
\* temps[i - index + 1] holds the outcomes of line 127 for pair i
LowerFetch(coord, assemblies, index, seqs, temps) ==
    IF index > Len(assemblies)
    THEN {[out |-> assemble_seq(seqs, coord.start, coord.end,
                                FragmentPositions(assemblies)),
           called |-> Len(assemblies), assembled |-> TRUE]}
    ELSE LET t_strand == assemblies[index].t.strand                     \* line 126
         IN UNION {IF temp_seq.kind # "seq"
                   THEN {[out |-> temp_seq, called |-> index, assembled |-> FALSE]}
                   ELSE LowerFetch(coord, assemblies, index + 1,
                                   Append(seqs, IF t_strand = -1 THEN Rc(temp_seq.seq)
                                                ELSE temp_seq.seq),
                                   Tail(temps)) : temp_seq \in Head(temps)}

\* the target coordinates after the loop: line 81 has run on the first `called`
StrandsReset(assemblies, called) ==
    [i \in 1..Len(assemblies) |->
        IF i <= called THEN [assemblies[i] EXCEPT !.t = ForwardStrand(@)]
        ELSE assemblies[i]]

----------------------------------------------------------------------------
(* get_sequence, sequence.py:142-167 *)

Requests ==
    {[mode |-> m, start |-> a, end |-> b, strand |-> s] :
        m \in {"coord", "args"}, a \in 0..MaxCoord, b \in 0..MaxCoord, s \in Strands}

InitSeq ==
    /\ AsmIdle
    /\ AlnIdle
    /\ CallIdle
    /\ LvIdle
    /\ sqReq \in {r \in Requests : r.start <= r.end}
    /\ sqCorrupt \in {"none", "direct", "lower", "nested"}
    /\ sqPc = "call"
    /\ sqCoord = NoCoordinate
    /\ sqStrand = 0
    /\ sqDirect = NoOutcome
    /\ sqConv = NoConversion
    /\ sqLower = <<>>
    /\ sqOut = NoOutcome
    /\ sqRc = 0
    /\ sqQueried = {}
    /\ sqHanded = <<>>
    /\ sqFellBack = FALSE

\* lines 151-154: the copy of the caller's Coordinate, or _make_coord with
\* the strand argument replaced by the literal 1
EnterCoord(req) ==
    IF req.mode = "coord"
    THEN Coordinate(req.start, req.end, req.strand)
    ELSE Coordinate(req.start, req.end, 1)

\* lines 151-156
GetSequenceEnter ==
    /\ sqPc = "call"
    /\ sqCoord' = EnterCoord(sqReq)
    /\ sqStrand' = EnterCoord(sqReq).strand
    /\ sqPc' = "direct"
    /\ UNCHANGED <<sqReq, sqCorrupt, sqDirect, sqConv, sqLower, sqOut, sqRc, sqQueried,
                   sqHanded, sqFellBack>>
    /\ UNCHANGED OutsideSeq

\* the except clause of line 160 as a bare except
CaughtAny(outcome) == outcome.kind # "seq"

\* line 160: except NoItemError
Caught(outcome) == outcome.kind = "NoItemError"

\* lines 158-160: the try block, one call of _get_sequence_from_direct_assembly
DirectAssembly ==
    /\ sqPc = "direct"
    /\ LET coord == ForwardStrand(sqCoord)                            \* line 81
       IN /\ sqCoord' = coord
          /\ sqQueried' = sqQueried \cup {coord.strand}
          /\ \E assemblies \in get_coord_conversion(coord, sqCorrupt = "direct") :
               LET sequence == direct_assembly(coord, assemblies)
               IN /\ sqDirect' = sequence
                  /\ sqHanded' = IF ReachesAssembler(assemblies)
                                 THEN Append(sqHanded, FragmentPositions(assemblies))
                                 ELSE sqHanded
                  /\ IF Caught(sequence)
                     THEN /\ sqPc' = "lower"                          \* line 163
                          /\ sqFellBack' = TRUE
                          /\ sqOut' = sqOut
                     ELSE /\ sqPc' = IF sequence.kind = "seq" THEN "finish" ELSE "done"
                          /\ sqFellBack' = sqFellBack
                          /\ sqOut' = sequence
    /\ UNCHANGED <<sqReq, sqCorrupt, sqStrand, sqConv, sqLower, sqRc>>
    /\ UNCHANGED OutsideSeq

\* lines 52-56: the ranks read from the coord_system table
LowerConversionEnter ==
    /\ sqPc = "lower"
    /\ \E cs \in CoordSystems :
         sqConv' = [query_rank |-> cs.query_rank, seq_level_rank |-> cs.seq_level_rank,
                    present |-> cs.present, rank |-> cs.query_rank + 1,
                    tried |-> <<>>]
    /\ sqPc' = "ranks"
    /\ UNCHANGED <<sqReq, sqCorrupt, sqCoord, sqStrand, sqDirect, sqLower, sqOut, sqRc,
                   sqQueried, sqHanded, sqFellBack>>
    /\ UNCHANGED OutsideSeq

\* lines 57-72: one iteration of the loop over ranks; a rank that yields
\* segment pairs ends the loop (line 72) and the conversion returns them
\* (line 74) to line 115, its locals gone
LowerConversionStep ==
    /\ sqPc = "ranks"
    /\ RangeHasNext(sqConv)
    /\ IF ~RankHasSystem(sqConv)
       THEN /\ sqConv' = [sqConv EXCEPT !.rank = @ + 1]              \* line 67
            /\ UNCHANGED <<sqPc, sqQueried, sqLower>>
       ELSE /\ sqQueried' = sqQueried \cup {sqCoord.strand}
            /\ \E assemblies \in get_coord_conversion(sqCoord, sqCorrupt = "lower") :
                 IF assemblies # <<>>
                 THEN /\ sqConv' = NoConversion
                      /\ sqLower' = assemblies
                      /\ sqPc' = "fetch"
                 ELSE /\ sqConv' = [sqConv EXCEPT !.rank = @ + 1,
                                                  !.tried = Append(@, sqConv.rank)]
                      /\ UNCHANGED <<sqPc, sqLower>>
    /\ UNCHANGED <<sqReq, sqCorrupt, sqCoord, sqStrand, sqDirect, sqOut, sqRc, sqHanded,
                   sqFellBack>>
    /\ UNCHANGED OutsideSeq

\* lines 118-119 read as a missing assembly being filled in
NoAssemblyFiller(coord) == Returned(Repeat("N", CoordLen(coord)))

\* lines 118-119 read as an assertion that an assembly was found
NoAssemblyAssert(coord) == Raised("AssertionError")

\* lines 118-119: raise NoItemError(f"no assembly for {coord}")
NoAssembly(coord) == Raised("NoItemError")

\* the loop of line 57 runs out of ranks: the conversion returns nothing
\* (line 74) and line 119 raises
LowerConversionExhausted ==
    /\ sqPc = "ranks"
    /\ ~RangeHasNext(sqConv)
    /\ sqConv' = NoConversion
    /\ sqOut' = NoAssembly(sqCoord)
    /\ sqPc' = IF NoAssembly(sqCoord).kind = "seq" THEN "finish" ELSE "done"
    /\ UNCHANGED <<sqReq, sqCorrupt, sqCoord, sqStrand, sqDirect, sqLower, sqRc,
                   sqQueried, sqHanded, sqFellBack>>
    /\ UNCHANGED OutsideSeq

\* lines 124-139: every segment pair's target is assembled, then the whole
LowerAssembly ==
    /\ sqPc = "fetch"
    /\ \E r \in LowerFetch(sqCoord, sqLower, 1, <<>>,
                           DirectOutcomes(sqLower, 1, sqCorrupt = "nested")) :
         /\ sqLower' = StrandsReset(sqLower, r.called)
         /\ sqQueried' = sqQueried
                \cup {ForwardStrand(sqLower[i].t).strand : i \in 1..r.called}
         /\ sqHanded' = IF r.assembled
                        THEN Append(sqHanded, FragmentPositions(sqLower))
                        ELSE sqHanded
         /\ sqOut' = r.out
         /\ sqPc' = IF r.out.kind = "seq" THEN "finish" ELSE "done"
    /\ UNCHANGED <<sqReq, sqCorrupt, sqCoord, sqStrand, sqDirect, sqConv, sqRc,
                   sqFellBack>>
    /\ UNCHANGED OutsideSeq

\* lines 165-167
GetSequenceReturn ==
    /\ sqPc = "finish"
    /\ IF sqStrand = -1
       THEN /\ sqOut' = Returned(Rc(sqOut.seq))
            /\ sqRc' = sqRc + 1
       ELSE UNCHANGED <<sqOut, sqRc>>
    /\ sqPc' = "done"
    /\ UNCHANGED <<sqReq, sqCorrupt, sqCoord, sqStrand, sqDirect, sqConv, sqLower,
                   sqQueried, sqHanded, sqFellBack>>
    /\ UNCHANGED OutsideSeq

NextSeq ==
    \/ GetSequenceEnter
    \/ DirectAssembly
    \/ LowerConversionEnter
    \/ LowerConversionStep
    \/ LowerConversionExhausted
    \/ LowerAssembly
    \/ GetSequenceReturn

SpecSeq == InitSeq /\ [][NextSeq]_vars


SqDone == sqPc = "done"

\* the interval lies in an assembly gap: the direct mapping gave no segment
\* pairs and neither did any intermediate rank
SqGap == sqDirect.kind = "NoItemError" /\ sqLower = <<>>

\* C3 as stated: a request for an interval fully inside an assembly gap yields
\* a sequence of filler characters of the requested length.
C3_GapYieldsFiller ==
    (SqDone /\ SqGap)
        => sqOut = Returned(Repeat("N", sqReq.end - sqReq.start))

\* C3 amended: a request for an interval fully inside an assembly gap yields no
\* sequence and never reaches the assembler; filler is only ever assembled
\* around the fragments of a non-empty list of segment pairs.
C3_GapYieldsNoSequence ==
    /\ (SqDone /\ SqGap) => (sqOut.kind # "seq" /\ sqHanded = <<>>)
    /\ \A i \in 1..Len(sqHanded) : sqHanded[i] # <<>>
    /\ (SqDone /\ sqOut.kind = "seq")
          => /\ sqHanded # <<>>
             /\ Len(sqOut.seq) = sqReq.end - sqReq.start

\* a request for a non-empty interval in a gap has been answered
C3_Witness ==
    /\ SqDone /\ SqGap
    /\ sqReq.start < sqReq.end
    /\ sqOut.kind # "seq"

\* C4: every mapping is queried on the forward strand and get_sequence
\* reverse-complements its result exactly once if and only if the requested
\* interval is on strand -1, however the request is supplied.
C4_ReversedIffReverseRequested ==
    (SqDone /\ sqOut.kind = "seq")
        => /\ sqQueried \subseteq {1}
           /\ sqRc <= 1
           /\ (sqRc = 1) <=> (sqReq.strand = -1)

\* the ranks strictly between the query's rank and the sequence-level rank
\* that name a coordinate system
RanksBetween(conv) ==
    {r \in conv.present : conv.query_rank < r /\ r < conv.seq_level_rank}

Range(seq) == {seq[i] : i \in 1..Len(seq)}

\* the step of the loop over ranks asks the mapper for rank sqConv.rank
AttemptsRank ==
    /\ sqPc = "ranks"
    /\ \/ sqPc' = "fetch"
       \/ sqPc' = "ranks" /\ sqConv'.tried # sqConv.tried

\* C5: the ranks tried are the coordinate-system ranks strictly between the
\* query's rank and the sequence-level rank, in increasing order; the first one
\* that yields segment pairs ends the walk with those pairs, and the walk ends
\* empty-handed only when every such rank has been tried.
C5_RanksTriedInOrder ==
    [][/\ AttemptsRank
          => /\ sqConv.rank \in RanksBetween(sqConv)
             /\ \A i \in 1..Len(sqConv.tried) : sqConv.tried[i] < sqConv.rank
             /\ Range(sqConv.tried) = {r \in RanksBetween(sqConv) : r < sqConv.rank}
       /\ (sqPc = "ranks" /\ sqPc' = "ranks" /\ sqConv'.tried # sqConv.tried)
          => /\ sqConv'.tried = Append(sqConv.tried, sqConv.rank)
             /\ sqLower' = <<>>
       /\ (sqPc = "ranks" /\ sqPc' = "fetch")
          => /\ sqLower' # <<>>
             /\ sqConv' = NoConversion
       /\ (sqPc = "ranks" /\ sqPc' \notin {"ranks", "fetch"})
          => /\ Range(sqConv.tried) = RanksBetween(sqConv)
             /\ sqLower' = <<>>
       /\ (sqPc # "ranks" /\ sqPc # "lower") => sqPc' # "ranks"
      ]_vars

\* the walk has tried rank 2 in vain and is about to try rank 3
C5_Witness ==
    /\ sqPc = "ranks"
    /\ sqConv.tried = <<2>>
    /\ sqConv.rank = 3
    /\ RankHasSystem(sqConv)
    /\ RangeHasNext(sqConv)

\* C6: when the direct mapping and every intermediate rank yield nothing,
\* get_sequence leaves with the typed NoItemError, not with another failure
\* and not with a result.
C6_NoMappingIsNoItemError ==
    (SqDone /\ sqFellBack /\ sqLower = <<>>) => sqOut = Raised("NoItemError")

\* a reverse-strand request has ended in NoItemError after the fallback found
\* no rank that maps
C6_Witness ==
    /\ SqDone /\ sqFellBack /\ sqLower = <<>>
    /\ sqReq.strand = -1
    /\ sqOut.kind = "NoItemError"

\* C7: the lower-rank path runs only after the direct path raised NoItemError;
\* any other failure of the direct path is the outcome of get_sequence, as it
\* was raised, and the lower-rank path does not run.
C7_FallbackOnlyAfterNoMapping ==
    /\ sqFellBack => sqDirect.kind = "NoItemError"
    /\ sqPc \in {"lower", "ranks", "fetch"} => sqFellBack
    /\ (sqLower # <<>> \/ sqConv # NoConversion) => sqFellBack
    /\ sqDirect.kind \notin {"none", "seq", "NoItemError"}
          => /\ SqDone
             /\ sqOut = sqDirect
             /\ ~sqFellBack

\* the direct path failed on overlapping fragments and get_sequence ended
\* with that failure
C7_Witness ==
    /\ SqDone
    /\ sqDirect.kind = "AssertionError"
    /\ sqOut.kind = "AssertionError"
    /\ ~sqFellBack

----------------------------------------------------------------------------
(* cigar lines and their slices, cogent3.parse.cigar as called from
   related_region.py:168-169 and :184-187 *)

\* a cigar line "2M1D3M" as its tokens <<[n |-> 2, c |-> "M"], ...>>
CigarOps == {"M", "D"}

\* the columns of an alignment row: "M" where the member has a base, "D"
\* where it has a gap
Patterns(n) == [1..n -> CigarOps]

RECURSIVE RunLength(_, _)
\* the length of the run of equal letters that starts at column i
RunLength(pattern, i) ==
    IF i < Len(pattern) /\ pattern[i + 1] = pattern[i]
    THEN 1 + RunLength(pattern, i + 1)
    ELSE 1

RECURSIVE Encode(_, _)
\* the cigar line stored for an alignment row, from column i on
Encode(pattern, i) ==
    IF i > Len(pattern) THEN <<>>
    ELSE LET n == RunLength(pattern, i)
         IN <<[n |-> n, c |-> pattern[i]]>> \o Encode(pattern, i + n)

Span(start, end) == [lost |-> FALSE, start |-> start, end |-> end]
LostSpan(n) == [lost |-> TRUE, start |-> 0, end |-> n]
SpanLength(span) == span.end - span.start

RECURSIVE CigarSpans(_, _, _)
\* cigar_to_map: an M token is a span of the next n bases, a D token a lost
\* span of n columns
CigarSpans(cigar, index, posn) ==
    IF index > Len(cigar) THEN <<>>
    ELSE LET n == cigar[index].n
         IN IF cigar[index].c = "M"
            THEN <<Span(posn, posn + n)>> \o CigarSpans(cigar, index + 1, posn + n)
            ELSE <<LostSpan(n)>> \o CigarSpans(cigar, index + 1, posn)

cigar_to_map(cigar) == CigarSpans(cigar, 1, 0)

RECURSIVE MapLength(_)
\* len(map): the number of alignment columns
MapLength(spans) ==
    IF spans = <<>> THEN 0 ELSE SpanLength(Head(spans)) + MapLength(Tail(spans))

\* the spans that are not lost
Useful(spans) == {i \in 1..Len(spans) : ~spans[i].lost}

Min(S) == CHOOSE x \in S : \A y \in S : x <= y
Max(S) == CHOOSE x \in S : \A y \in S : x >= y

\* Map.start and Map.end, attributes a map has only if some span is not lost
MapStart(spans) == Min({spans[i].start : i \in Useful(spans)})
MapEnd(spans) == Max({spans[i].end : i \in Useful(spans)})

RECURSIVE MapSlice(_, _, _, _)
\* map[left:right]: the part of each span inside columns [left, right);
\* offset is the column at which Head(spans) begins
MapSlice(spans, offset, left, right) ==
    IF spans = <<>> THEN <<>>
    ELSE LET span == Head(spans)
             upto == offset + SpanLength(span)
             lo == IF left > offset THEN left ELSE offset
             hi == IF right < upto THEN right ELSE upto
             rest == MapSlice(Tail(spans), upto, left, right)
         IN IF lo >= hi THEN rest
            ELSE IF span.lost THEN <<LostSpan(hi - lo)>> \o rest
                 ELSE <<Span(span.start + (lo - offset),
                             span.start + (hi - offset))>> \o rest

\* the base number taken for its column, as in a row without gaps
ColumnOfUngapped(spans, offset, posn) == offset + posn

RECURSIVE ColumnOf(_, _, _)
\* map.inverse(): the alignment column that holds base posn, the column
\* after the last one for a base the row does not have
ColumnOf(spans, offset, posn) ==
    IF spans = <<>> THEN offset
    ELSE LET span == Head(spans)
         IN IF ~span.lost /\ span.start <= posn /\ posn < span.end
            THEN offset + (posn - span.start)
            ELSE ColumnOf(Tail(spans), offset + SpanLength(span), posn)

\* _remap: the spans of a slice counted from the slice's first base
Remap(spans) ==
    [i \in 1..Len(spans) |->
        IF spans[i].lost THEN spans[i]
        ELSE Span(spans[i].start - MapStart(spans), spans[i].end - MapStart(spans))]

\* _slice_by_aln: the slice by columns and the bases it holds, no bounds if it
\* holds none
SliceByAln(map, left, right) ==
    LET slicemap == MapSlice(map, 0, left, right)
    IN [map |-> slicemap,
        loc |-> IF Useful(slicemap) = {} THEN <<>>
                ELSE <<MapStart(slicemap), MapEnd(slicemap)>>]

\* the sequence positions taken for column numbers
SliceBySeqAsColumns(map, start, end) ==
    [map |-> MapSlice(map, 0, start, end), loc |-> <<start, end>>]

\* _slice_by_seq: the columns from the one of base start to the one of base
\* end - 1, and the slice by those columns; no columns, at the cut point, for
\* an empty range of bases
SliceBySeq(map, start, end) ==
    LET aln_start == ColumnOf(map, 0, start)
        aln_end == IF start = end THEN aln_start ELSE ColumnOf(map, 0, end - 1) + 1
    IN [map |-> MapSlice(map, 0, aln_start, aln_end),
        loc |-> <<aln_start, aln_end>>]

\* slice_cigar(cigar_text, start, end, by_align)
slice_cigar(cigar, start, end, by_align) ==
    LET sliced == IF by_align THEN SliceByAln(cigar_to_map(cigar), start, end)
                  ELSE SliceBySeq(cigar_to_map(cigar), start, end)
    IN [map |-> IF Useful(sliced.map) = {} THEN sliced.map ELSE Remap(sliced.map),
        loc |-> sliced.loc]

RECURSIVE Gapped(_, _)
\* Aligned(map, seq): the bases of each span, "-" for each lost column
Gapped(spans, seq) ==
    IF spans = <<>> THEN <<>>
    ELSE LET span == Head(spans)
         IN (IF span.lost THEN Repeat("-", SpanLength(span))
             ELSE SubSeq(seq, span.start + 1, span.end))
            \o Gapped(Tail(spans), seq)

----------------------------------------------------------------------------
(* SyntenicRegion and SyntenicRegions, related_region.py:88-353 *)

\* the object state the methods read and write, as one record
AlnState ==
    [Region |-> Region, aln_map |-> aln_map, aln_loc |-> aln_loc,
     cigar_line |-> cigar_line, AlignedSeq |-> AlignedSeq,
     CigarBounds |-> CigarBounds, do_rc |-> do_rc, sliced |-> alnSliced,
     raised |-> "", value |-> Unset]

\* the state a method leaves behind
AlnBecomes(st) ==
    /\ Region' = st.Region
    /\ aln_map' = st.aln_map
    /\ aln_loc' = st.aln_loc
    /\ cigar_line' = st.cigar_line
    /\ AlignedSeq' = st.AlignedSeq
    /\ CigarBounds' = st.CigarBounds
    /\ do_rc' = st.do_rc
    /\ alnSliced' = st.sliced

ref_member == members[1]

\* genome.get_region(region=location)
RegionOf(location) == [none |-> FALSE, location |-> location]
\* region = None
NoRegion == [none |-> TRUE, location |-> NoCoordinate]

\* genome.make_location(start, end, strand, ensembl_coord=True): the row's
\* 1-based inclusive start becomes a 0-based one
block_loc(row) ==
    Coordinate(row.dnafrag_start - 1, row.dnafrag_end, row.dnafrag_strand)

\* lines 131-144: cigar_line, fetched from genomic_align once
GetCigarLine(st, member) ==
    IF st.cigar_line[member] # Unset THEN st
    ELSE [st EXCEPT !.cigar_line[member] = Cached(record[member].cigar_line)]

\* one slice_cigar call, noted in the history
Slice(st, member, start, end, by_align) ==
    [st EXCEPT !.sliced = Append(@, [member |-> member, by_align |-> by_align,
                                     start |-> start, end |-> end])]

\* `if self.aln_map and ...`: a map is true when it has columns
MapTruth(cached) == cached # Unset /\ MapLength(Value(cached)) > 0

\* `if self.aln_loc and ...`: a list is true when it is not empty
LocTruth(cached) == cached # Unset /\ Value(cached) # <<>>

\* the offsets counted from the block's start whatever its strand
RelativeRangeForward(block, location) ==
    <<location.start - block.start,
      location.start - block.start + (location.end - location.start)>>

\* lines 162-166: the reference location's offsets in its block, counted
\* from the block's own start
RelativeRange(block, location) ==
    LET relative_start == location.start - block.start
        relative_end == relative_start + CoordLen(location)
    IN IF block.strand # 1
       THEN <<CoordLen(block) - relative_end,
              CoordLen(block) - relative_end + CoordLen(location)>>
       ELSE <<relative_start, relative_end>>

\* every member sliced by sequence positions
by_seq_always(member) == FALSE

\* lines 169 and 187: by_align=False for the reference member, by_align=True
\* for the others
by_align(member) == member # ref_member

\* a local assignment: the value is computed once and then used by name
With(value, Body(_)) == CHOOSE result \in {Body(v) : v \in {value}} : TRUE

\* lines 146-176: _make_ref_map
make_ref_map(st0) ==
    LET member == ref_member
    IN IF MapTruth(st0.aln_map[member]) /\ st0.aln_loc[member] # Unset THEN st0
       ELSE With(RelativeRange(block_loc(record[member]), ref_location),
              LAMBDA relative :
            With(GetCigarLine(st0, member), LAMBDA st :
            With(slice_cigar(Value(st.cigar_line[member]),
                             relative[1], relative[2], by_align(member)),
              LAMBDA sliced :
              [Slice(st, member, relative[1], relative[2], by_align(member))
                 EXCEPT !.aln_map[member] = Cached(sliced.map),
                        !.aln_loc[member] = Cached(sliced.loc),
                        !.Region[member] =
                            Cached(RegionOf([ref_location EXCEPT !.strand =
                                       record[member].dnafrag_strand]))])))

\* lines 282-287: _populate_ref
populate_ref(st0) ==
    With(make_ref_map(st0), LAMBDA st :
      [st EXCEPT !.CigarBounds = Cached(Value(st.aln_loc[ref_member]))])

\* lines 305-313: the CigarStart and CigarEnd properties
GetCigarBounds(st) == IF st.CigarBounds # Unset THEN st ELSE populate_ref(st)

\* the bounds a member is sliced with when they are taken from the
\* reference location's offsets in its block
OffsetBounds(st) == RelativeRange(block_loc(record[ref_member]), ref_location)

\* lines 185-186: self.parent.CigarStart, self.parent.CigarEnd
ParentBounds(st) == Value(st.CigarBounds)

\* lines 191-209: the member's location for the bases [aln_loc[0], aln_loc[1])
\* of its block
MemberLocationForward(block, loc) ==
    [start |-> block.start + loc[1], end |-> block.start + loc[2],
     strand |-> block.strand]

MemberLocation(block, loc) ==
    LET relative_start == loc[1]
        relative_end == loc[2]
        shift == IF block.strand # 1 THEN CoordLen(block) - relative_end
                 ELSE relative_start
    IN Coordinate(block.start + shift,
                  block.start + (relative_end - relative_start) + shift,
                  block.strand)

\* lines 178-212: _make_map_from_ref
make_map_from_ref(st0, member) ==
    IF LocTruth(st0.aln_loc[member]) /\ st0.aln_map[member] # Unset THEN st0
    ELSE With(GetCigarBounds(GetCigarLine(st0, member)), LAMBDA st :
         With(ParentBounds(st), LAMBDA bounds :
         With(slice_cigar(Value(st.cigar_line[member]), bounds[1], bounds[2],
                          by_align(member)),
           LAMBDA sliced :
           [Slice(st, member, bounds[1], bounds[2], by_align(member))
              EXCEPT !.aln_map[member] = Cached(sliced.map),
                     !.aln_loc[member] = Cached(sliced.loc),
                     !.Region[member] =
                         Cached(IF sliced.loc = <<>> THEN NoRegion    \* IndexError
                                ELSE RegionOf(MemberLocation(
                                         block_loc(record[member]), sliced.loc)))])))

\* lines 103-104: _make_map_func
make_map_func(st, member) ==
    IF member = ref_member THEN make_ref_map(st) ELSE make_map_from_ref(st, member)

\* _get_cached_value('Region', self._make_map_func)
GetRegion(st, member) ==
    IF st.Region[member] # Unset THEN st ELSE make_map_func(st, member)

\* Region.Seq: the bases of the region's interval, reverse-complemented on
\* strand -1, as get_sequence returns them for a Coordinate
RegionSeq(location) ==
    IF location.strand = -1
    THEN Rc(Substr(location.start, CoordLen(location)))
    ELSE Substr(location.start, CoordLen(location))

\* self._cached['AlignedSeq'] = None
NoAligned == [none |-> TRUE, seq |-> <<>>, name |-> NoCoordinate]

\* Aligned(self.aln_map, seq), named after the region's location; the
\* annotations of an annotated sequence are not part of the value
Aligned(map, location, feature_types) ==
    [none |-> FALSE, seq |-> Gapped(map, RegionSeq(location)), name |-> location]

\* lines 221-224: region.Seq raises NoItemError when nothing maps the region
SeqFailure(st, member) == [st EXCEPT !.raised = "NoItemError"]

\* lines 214-229: _make_aligned
make_aligned(st0, member, feature_types) ==
    With(IF st0.aln_loc[member] = Unset \/ st0.aln_map[member] = Unset
         THEN make_map_func(st0, member) ELSE st0, LAMBDA st :
      IF Value(st.Region[member]).none
      THEN [st EXCEPT !.AlignedSeq[member] = Cached(NoAligned)]
      ELSE IF member \in unmapped THEN SeqFailure(st, member)
      ELSE [st EXCEPT !.AlignedSeq[member] =
               Cached(Aligned(Value(st.aln_map[member]),
                              Value(st.Region[member]).location, feature_types))])

\* lines 231-235: the AlignedSeq property
GetAlignedSeq(st0, member) ==
    With(IF st0.AlignedSeq[member] # Unset THEN st0
         ELSE make_aligned(st0, member, FALSE), LAMBDA st :
      IF st.raised # "" THEN st ELSE [st EXCEPT !.value = st.AlignedSeq[member]])

\* lines 237-244: get_annotated_aligned
get_annotated_aligned(st0, member) ==
    With(GetRegion(st0, member), LAMBDA st :
      IF Value(st.Region[member]).none THEN [st EXCEPT !.value = Cached(NoAligned)]
      ELSE With(make_aligned(st, member, TRUE), LAMBDA made :
             IF made.raised # "" THEN made ELSE GetAlignedSeq(made, member)))

\* lines 289-298: _get_rc_state
get_rc_state(st0) ==
    IF st0.do_rc # Unset THEN st0
    ELSE With(populate_ref(st0), LAMBDA st :
           [st EXCEPT !.do_rc =
               Cached(ref_location.strand
                         # Value(st.Region[ref_member]).location.strand)])

\* the copy of the location with its strand left as it is
Unflipped(location) == location

\* lines 334-336: loc = member.location.copy(); loc.strand *= -1
Flipped(location) == [location EXCEPT !.strand = -1 * @]

\* the name of a member's row taken from the row's own name, flipped
NameRowFromRow(st, member, seq) ==
    LET name == IF Value(st.do_rc) THEN Flipped(seq.name) ELSE seq.name
    IN [st EXCEPT !.AlignedSeq[member] = Cached([seq EXCEPT !.name = name]),
                  !.value = Cached([name |-> name, seq |-> seq.seq])]

\* lines 331-340: the name of a member's row, set on the row itself
NameRow(st, member, seq) ==
    LET name == IF Value(st.do_rc) THEN Flipped(Value(st.Region[member]).location)
                ELSE seq.name
    IN [st EXCEPT !.AlignedSeq[member] = Cached([seq EXCEPT !.name = name]),
                  !.value = Cached([name |-> name, seq |-> seq.seq])]

RECURSIVE AlignmentLoop(_, _, _, _)
\* lines 324-340: the loop over the members from `index` on; seqs holds the
\* (name, seq) pairs collected so far
AlignmentLoop(st0, index, feature_types, seqs) ==
    IF index > Len(members) THEN [st0 EXCEPT !.value = Cached(seqs)]
    ELSE With(IF feature_types THEN get_annotated_aligned(st0, members[index])
              ELSE GetAlignedSeq(st0, members[index]), LAMBDA st1 :
           IF st1.raised # "" THEN st1
           ELSE IF Value(st1.value).none
           THEN AlignmentLoop(st1, index + 1, feature_types, seqs)
           ELSE With(NameRow(get_rc_state(st1), members[index], Value(st1.value)),
                  LAMBDA st :
                  AlignmentLoop(st, index + 1, feature_types,
                                Append(seqs, Value(st.value)))))

\* whether column i holds a base in every row
ColumnAllBases(rows, i) == \A r \in 1..Len(rows) : rows[r][i] # "-"

\* whether column i holds a base in some row
ColumnHasBase(rows, i) == \E r \in 1..Len(rows) : rows[r][i] # "-"

RECURSIVE KeepColumns(_, _, _)
\* the letters of row at the columns of `keep`, from column i on
KeepColumns(row, keep, i) ==
    IF i > Len(row) THEN <<>>
    ELSE (IF i \in keep THEN <<row[i]>> ELSE <<>>) \o KeepColumns(row, keep, i + 1)

\* line 351: aln.filtered(lambda x: set(x) != set('-'))
Filtered(rows) ==
    IF rows = <<>> THEN rows
    ELSE LET keep == {i \in 1..Len(rows[1]) : ColumnHasBase(rows, i)}
         IN [r \in 1..Len(rows) |-> KeepColumns(rows[r], keep, 1)]

\* lines 345-353: the Alignment of the collected rows, reversed and filtered
\* as asked; rows of different lengths do not make an Alignment
MakeAlignment(seqs, rc, omit_redundant) ==
    LET rows == [i \in 1..Len(seqs) |-> seqs[i].seq]
        oriented == IF rc THEN [i \in 1..Len(rows) |-> Rc(rows[i])] ELSE rows
    IN IF \E i, j \in 1..Len(rows) : Len(rows[i]) # Len(rows[j])
       THEN [kind |-> "ValueError", names |-> <<>>, seqs |-> <<>>]
       ELSE [kind |-> "aln",
             names |-> [i \in 1..Len(seqs) |-> seqs[i].name],
             seqs |-> IF omit_redundant THEN Filtered(oriented) ELSE oriented]

\* lines 315-353: get_alignment
get_alignment(st0, feature_types, omit_redundant) ==
    With(AlignmentLoop(st0, 1, feature_types, <<>>), LAMBDA looped :
      IF looped.raised # "" THEN looped
      ELSE With(get_rc_state(looped), LAMBDA st :
             [st EXCEPT !.value =
                 Cached(MakeAlignment(Value(looped.value), Value(st.do_rc),
                                      omit_redundant))]))

----------------------------------------------------------------------------
(* The alignment blocks explored *)

\* the number of columns of an alignment block
MaxCols == 2

\* the rows of a block: every member has at least one base in it
Rows == {pattern \in Patterns(MaxCols) : \E i \in 1..MaxCols : pattern[i] = "M"}

Bases(pattern) == Cardinality({i \in 1..Len(pattern) : pattern[i] = "M"})

\* where each member's block starts on its genome (0-based)
BlockStart(member) ==
    CASE member = "ref" -> 1
      [] member = "m1" -> 2
      [] OTHER -> 0

\* the genomic_align row of a member
Row(member, pattern, strand) ==
    [dnafrag_start |-> BlockStart(member) + 1,
     dnafrag_end |-> BlockStart(member) + Bases(pattern),
     dnafrag_strand |-> strand,
     cigar_line |-> Encode(pattern, 1)]

\* the blocks of two members, and those of three: a reference on strand -1
\* and two members on strand 1, the last with no gap in its row
Blocks ==
    {<<"ref", "m1">>, <<"ref", "m1", "m2">>}

Members(block) == {block[i] : i \in 1..Len(block)}

InitAln ==
    /\ AsmIdle
    /\ SqIdle
    /\ CallIdle
    /\ LvIdle
    /\ members \in Blocks
    /\ \E pattern \in [Members(members) -> Rows], strand \in [Members(members) -> Strands] :
         /\ "m2" \in Members(members)
               => /\ \A i \in 1..MaxCols : pattern["m2"][i] = "M"
                  /\ strand["m2"] = 1
                  /\ strand["m1"] = 1
                  /\ strand["ref"] = -1
         /\ record = [m \in Members(members) |-> Row(m, pattern[m], strand[m])]
    /\ \E start \in 0..MaxCols + 1, end \in 0..MaxCols + 1, strand \in Strands :
         /\ start < end
         /\ ref_location = Coordinate(start, end, strand)
         /\ block_loc(record["ref"]).start <= start
         /\ end <= block_loc(record["ref"]).end
    /\ unmapped \in {{}} \cup {{m} : m \in Members(members) \ {"ref"}}
    /\ Region = [m \in Members(members) |->
                    IF m = "ref" THEN Cached(RegionOf(ref_location)) ELSE Unset]
    /\ aln_map = [m \in Members(members) |-> Unset]
    /\ aln_loc = [m \in Members(members) |-> Unset]
    /\ cigar_line = [m \in Members(members) |-> Unset]
    /\ AlignedSeq = [m \in Members(members) |-> Unset]
    /\ CigarBounds = Unset
    /\ do_rc = Unset
    /\ alnSliced = <<>>
    /\ alnResult = NoResult

AlnInputsUnchanged == UNCHANGED <<members, record, ref_location, unmapped>>

\* len(member), member.location, member.Region (lines 116-129)
AccessRegion(member) ==
    /\ \E st \in {GetRegion(AlnState, member)} : AlnBecomes(st)
    /\ AlnInputsUnchanged
    /\ UNCHANGED alnResult
    /\ UNCHANGED OutsideAln

\* member.AlignedSeq (lines 231-235)
AccessAlignedSeq(member) ==
    /\ \E st \in {GetAlignedSeq(AlnState, member)} : AlnBecomes(st)
    /\ AlnInputsUnchanged
    /\ UNCHANGED alnResult
    /\ UNCHANGED OutsideAln

\* member.get_annotated_aligned(feature_types) (lines 237-244)
GetAnnotatedAligned(member) ==
    /\ \E st \in {get_annotated_aligned(AlnState, member)} : AlnBecomes(st)
    /\ AlnInputsUnchanged
    /\ UNCHANGED alnResult
    /\ UNCHANGED OutsideAln

\* block.CigarStart, block.CigarEnd, len(block) (lines 302-313)
AccessCigarBounds ==
    /\ \E st \in {GetCigarBounds(AlnState)} : AlnBecomes(st)
    /\ AlnInputsUnchanged
    /\ UNCHANGED alnResult
    /\ UNCHANGED OutsideAln

\* block._rc (lines 289-300)
AccessRc ==
    /\ \E st \in {get_rc_state(AlnState)} : AlnBecomes(st)
    /\ AlnInputsUnchanged
    /\ UNCHANGED alnResult
    /\ UNCHANGED OutsideAln

\* block.get_alignment(feature_types, omit_redundant) (lines 315-353)
GetAlignment(feature_types, omit_redundant) ==
    \E st \in {get_alignment(AlnState, feature_types, omit_redundant)} :
       /\ AlnBecomes(st)
       /\ alnResult' = IF st.raised # ""
                       THEN [kind |-> st.raised, names |-> <<>>, seqs |-> <<>>]
                       ELSE Value(st.value)
       /\ AlnInputsUnchanged
       /\ UNCHANGED OutsideAln

NextAln ==
    \/ \E member \in Members(members) : AccessRegion(member)
    \/ \E member \in Members(members) : AccessAlignedSeq(member)
    \/ \E member \in Members(members) : GetAnnotatedAligned(member)
    \/ AccessCigarBounds
    \/ AccessRc
    \/ \E feature_types \in BOOLEAN, omit_redundant \in BOOLEAN :
          GetAlignment(feature_types, omit_redundant)

SpecAln == InitAln /\ [][NextAln]_vars

NonRefMembers == Members(members) \ {ref_member}

\* the members get_alignment keeps: those with a region
Retained == {m \in Members(members) : Region[m] # Unset /\ ~Value(Region[m]).none}

\* the sequence of a member cannot be resolved and get_alignment has come to it
ResolutionFailed(member) ==
    /\ member \in unmapped
    /\ member \in Retained
    /\ alnResult.kind # "none"

\* C8: when the sequence of one of 3 members cannot be resolved (NoItemError),
\* get_alignment raises nothing and returns the other 2 members, both rows of
\* the same length.
C8_UnresolvedMemberIsDropped ==
    (Len(members) = 3 /\ \E m \in NonRefMembers : ResolutionFailed(m))
        => /\ alnResult.kind = "aln"
           /\ Len(alnResult.names) = 2
           /\ Len(alnResult.seqs[1]) = Len(alnResult.seqs[2])

\* the slice_cigar calls made for a member
SlicesOf(member) == {i \in 1..Len(alnSliced) : alnSliced[i].member = member}

\* C9: whatever is accessed and in whatever order, a member other than the
\* reference is sliced by columns, after the reference member was sliced by
\* sequence positions, and with the column bounds that slice produced, which
\* are the block's CigarStart and CigarEnd.
C9_ReferenceSlicedFirst ==
    /\ \A m \in Members(members) : (aln_map[m] # Unset) <=> (SlicesOf(m) # {})
    /\ \A i \in SlicesOf(ref_member) :
          /\ ~alnSliced[i].by_align
          /\ aln_loc[ref_member] =
                Cached(SliceBySeq(cigar_to_map(record[ref_member].cigar_line),
                                  alnSliced[i].start, alnSliced[i].end).loc)
    /\ \A m \in NonRefMembers : \A i \in SlicesOf(m) :
          /\ alnSliced[i].by_align
          /\ \E j \in SlicesOf(ref_member) : j < i
          /\ aln_loc[ref_member] = Cached(<<alnSliced[i].start, alnSliced[i].end>>)
          /\ CigarBounds = aln_loc[ref_member]

\* a member's region was the first thing accessed, and the reference's columns
\* are not its sequence positions
C9_Witness ==
    /\ Len(alnSliced) = 2
    /\ alnSliced[1].member = ref_member
    /\ alnSliced[2].member # ref_member
    /\ <<alnSliced[1].start, alnSliced[1].end>>
          # <<alnSliced[2].start, alnSliced[2].end>>
    /\ \A m \in Members(members) : AlignedSeq[m] = Unset
    /\ do_rc = Unset

\* the rows made so far
RowsMade == {m \in Members(members) :
                 AlignedSeq[m] # Unset /\ ~Value(AlignedSeq[m]).none}

RECURSIVE Degapped(_)
Degapped(seq) ==
    IF seq = <<>> THEN <<>>
    ELSE (IF Head(seq) = "-" THEN <<>> ELSE <<Head(seq)>>) \o Degapped(Tail(seq))

RECURSIVE RetainedFrom(_)
RetainedFrom(i) ==
    IF i > Len(members) THEN <<>>
    ELSE (IF members[i] \in Retained THEN <<members[i]>> ELSE <<>>)
         \o RetainedFrom(i + 1)

\* the reference's block is on the other strand than the requested location
StrandsDiffer == ref_location.strand # record[ref_member].dnafrag_strand

\* the cached rows of the retained members, in member order
CachedRows ==
    LET kept == RetainedFrom(1)
    IN [i \in 1..Len(kept) |-> Value(AlignedSeq[kept[i]]).seq]

\* the locations of the retained members' regions, in member order
RegionLocations ==
    LET kept == RetainedFrom(1)
    IN [i \in 1..Len(kept) |-> Value(Region[kept[i]]).location]

\* C11: when the strand of the reference's block differs from the requested
\* strand, the alignment get_alignment returns holds the reverse complement
\* of every retained member's row under a name with the strand flipped; when
\* the strands agree it holds the rows and the names as they are. One
\* decision (_do_rc) serves all members.
C11_BlockOrientedAsRequested ==
    alnResult.kind = "aln"
        => /\ do_rc = Cached(StrandsDiffer)
           /\ LET rows == IF StrandsDiffer
                          THEN [i \in 1..Len(CachedRows) |-> Rc(CachedRows[i])]
                          ELSE CachedRows
              IN alnResult.seqs \in {rows, Filtered(rows)}
           /\ alnResult.names =
                 [i \in 1..Len(RegionLocations) |->
                     [RegionLocations[i] EXCEPT
                         !.strand = IF StrandsDiffer THEN -1 * @ ELSE @]]

\* an alignment of two rows or more, one of them a gap and a base, was
\* returned reversed
C11_Witness ==
    /\ alnResult.kind = "aln"
    /\ StrandsDiffer
    /\ Len(alnResult.seqs) >= 2
    /\ \E i \in 1..Len(CachedRows) :
          /\ Len(CachedRows[i]) = 2
          /\ CachedRows[i][1] = "-"
          /\ alnResult.seqs[i] = Rc(CachedRows[i])
          /\ alnResult.seqs[i] # CachedRows[i]
    /\ \A i \in 1..Len(alnResult.names) :
          alnResult.names[i].strand = -1 * RegionLocations[i].strand

----------------------------------------------------------------------------
(* The tail of get_alignment, related_region.py:345-353, on collected rows *)

\* the number of columns of the rows collected
MaxRowLen == 4

\* the numbers of rows collected, one per retained member; the longest rows
\* are explored in pairs only
RowCounts == {2, 3}

\* gapped rows of n letters
GappedRows(n) == [1..n -> {"A", "-"}]

InitFlt ==
    /\ AsmIdle
    /\ SqIdle
    /\ AlnIdle
    /\ LvIdle
    /\ \E n \in 1..MaxRowLen, count \in RowCounts :
         /\ count > 2 => n < MaxRowLen
         /\ \E rows \in [1..count -> GappedRows(n)], rc \in BOOLEAN,
               omit_redundant \in BOOLEAN :
               callIn = [seqs |-> [i \in 1..count |->
                                      [name |-> NoCoordinate, seq |-> rows[i]]],
                         rc |-> rc, omit_redundant |-> omit_redundant]
    /\ callOut = <<>>

\* lines 345-353: aln = Alignment(data=seqs); aln.rc(); aln.filtered(...)
AlignRows ==
    /\ callOut = <<>>
    /\ callOut' = <<MakeAlignment(callIn.seqs, callIn.rc, callIn.omit_redundant)>>
    /\ UNCHANGED callIn
    /\ UNCHANGED OutsideCall

NextFlt == AlignRows

SpecFlt == InitFlt /\ [][NextFlt]_vars

\* the rows given, as the alignment holds them before any filtering
FltRows ==
    [i \in 1..Len(callIn.seqs) |->
        IF callIn.rc THEN Rc(callIn.seqs[i].seq) ELSE callIn.seqs[i].seq]

\* the columns in which some row has a base
FltKept == {c \in 1..Len(FltRows[1]) : \E i \in 1..Len(FltRows) : FltRows[i][c] # "-"}

\* the k-th kept column, counting from the left
FltColumn(k) ==
    CHOOSE c \in FltKept : Cardinality({d \in FltKept : d <= c}) = k

\* C12: the alignment returned without omit_redundant holds every column; the
\* one returned with it holds exactly the columns in which some row has a base,
\* in their original order, the same columns in every row.
C12_OnlyGapColumnsRemoved ==
    callOut # <<>>
        => LET out == callOut[1]
           IN /\ out.kind = "aln"
              /\ Len(out.seqs) = Len(FltRows)
              /\ ~callIn.omit_redundant => out.seqs = FltRows
              /\ callIn.omit_redundant
                    => \A i \in 1..Len(FltRows) :
                          /\ Len(out.seqs[i]) = Cardinality(FltKept)
                          /\ \A k \in 1..Cardinality(FltKept) :
                                out.seqs[i][k] = FltRows[i][FltColumn(k)]

\* two rows of 4 columns whose column 3 alone is a gap in both came back
\* with 3 columns
C12_Witness ==
    /\ callOut # <<>>
    /\ callIn.omit_redundant
    /\ Len(callIn.seqs) = 2
    /\ Len(FltRows[1]) = 4
    /\ FltKept = {1, 2, 4}
    /\ \A i \in 1..2 : Len(callOut[1].seqs[i]) = 3

\* the members whose mapping from the reference met an IndexError: their
\* slice by columns holds no base, so aln_loc[0] does not exist (line 198)
IndexErrorMet ==
    {m \in NonRefMembers : aln_loc[m] = Cached(<<>>) /\ Region[m] # Unset}

\* C16: an index error raised while mapping a member other than the reference
\* is reported as NoMapping: the member is never left with a region of None
\* and no error raised.
C16_IndexErrorIsNoMapping ==
    \A m \in IndexErrorMet :
        /\ ~Value(Region[m]).none
        /\ alnResult.kind = "NoMapping"

\* the rows of the assembly tables read for the positions handed over do not
\* overlap, as the mapper takes them
MapperRowsDisjoint == sqCorrupt \in {"none", "nested"}

\* the starts of the positions ascend
AscendingStarts(positions) ==
    \A k \in 1..(Len(positions) - 1) : positions[k][1] <= positions[k + 1][1]

\* no position starts before its predecessor ends
Disjoint(positions) ==
    \A k \in 1..(Len(positions) - 1) : positions[k][2] <= positions[k + 1][1]

Kept(cached, after) == cached # Unset => after = cached

\* C18: once Region, cigar_line, AlignedSeq, the alignment map and bounds or
\* CigarStart and CigarEnd are populated on a region object, no later
\* operation on the object replaces the value with a different one.
C18_MemoizedNeverReplaced ==
    [][/\ \A m \in Members(members) :
             /\ Kept(Region[m], Region'[m])
             /\ Kept(cigar_line[m], cigar_line'[m])
             /\ Kept(AlignedSeq[m], AlignedSeq'[m])
             /\ Kept(aln_map[m], aln_map'[m])
             /\ Kept(aln_loc[m], aln_loc'[m])
        /\ Kept(CigarBounds, CigarBounds')]_vars

\* C21: resolving a sequence leaves every coordinate it did not create as it
\* was: the caller's requested coordinate, and the segment pairs the mapper
\* returned, keep their start, end and strand in every step of get_sequence.
C21_CoordinatesLeftAlone ==
    [][/\ sqReq' = sqReq
       /\ sqLower # <<>> => sqLower' = sqLower]_vars

\* what a get_alignment call returned or raised
AlnOutcome(st) ==
    IF st.raised # "" THEN [kind |-> st.raised, names |-> <<>>, seqs |-> <<>>]
    ELSE Value(st.value)

\* the object state a call left behind, as the next call finds it
LeftBehind(st) == [st EXCEPT !.raised = "", !.value = Unset]

\* get_alignment(feature_types, omit_redundant) called twice in a row comes
\* to the same outcome and the same orientation decision both times
SameTwice(feature_types, omit_redundant) ==
    \E first \in {get_alignment(AlnState, feature_types, omit_redundant)} :
       \E second \in {get_alignment(LeftBehind(first), feature_types, omit_redundant)} :
          /\ AlnOutcome(second) = AlnOutcome(first)
          /\ second.do_rc = first.do_rc

\* C23: get_alignment is idempotent: whatever was accessed before, two calls
\* in a row with the same arguments return the same names (strand labels
\* flipped once, not twice) and the same gapped sequences, and the
\* orientation decision is the same on both.
C23_GetAlignmentIdempotent ==
    \A feature_types \in BOOLEAN, omit_redundant \in BOOLEAN :
        SameTwice(feature_types, omit_redundant)

\* an alignment was returned reverse-complemented, the cached rows carrying
\* the flipped names a second call starts from
C23_Witness ==
    /\ alnResult.kind = "aln"
    /\ do_rc = Cached(TRUE)
    /\ Len(alnResult.names) = 2
    /\ \A m \in Members(members) :
          /\ AlignedSeq[m] # Unset
          /\ Region[m] # Unset
          /\ ~Value(AlignedSeq[m]).none
          /\ Value(AlignedSeq[m]).name = Flipped(Value(Region[m]).location)

----------------------------------------------------------------------------
(* slice_cigar as called at related_region.py:168-169 and :184-187, on
   bounded cigar lines *)

\* the number of columns of the rows whose cigar lines are sliced
MaxCigarLen == 4

\* the cigar line "5M3D5M"
Cigar5M3D5M == <<[n |-> 5, c |-> "M"], [n |-> 3, c |-> "D"], [n |-> 5, c |-> "M"]>>

\* the cigar lines sliced: those of every row of up to MaxCigarLen columns,
\* and "5M3D5M"
CigarLines ==
    {Encode(pattern, 1) : pattern \in UNION {Patterns(n) : n \in 1..MaxCigarLen}}
        \cup {Cigar5M3D5M}

RECURSIVE TokenSum(_, _)
\* the total length of the tokens of cigar whose letter is in `letters`
TokenSum(cigar, letters) ==
    IF cigar = <<>> THEN 0
    ELSE (IF Head(cigar).c \in letters THEN Head(cigar).n ELSE 0)
         + TokenSum(Tail(cigar), letters)

\* the length of a cigar line in the space a slice is asked in
SpaceLength(cigar, in_columns) ==
    IF in_columns THEN TokenSum(cigar, CigarOps) ELSE TokenSum(cigar, {"M"})

InitCig ==
    /\ AsmIdle
    /\ SqIdle
    /\ AlnIdle
    /\ LvIdle
    /\ \E cigar \in CigarLines, in_columns \in BOOLEAN :
         \E start \in 0..SpaceLength(cigar, in_columns),
            end \in 0..SpaceLength(cigar, in_columns) :
            /\ start <= end
            /\ callIn = [cigar |-> cigar, start |-> start, end |-> end,
                         by_align |-> in_columns]
    /\ callOut = <<>>

\* cigar.slice_cigar(cigar_line, start, end, by_align=...)
SliceCigar ==
    /\ callOut = <<>>
    /\ callOut' = <<slice_cigar(callIn.cigar, callIn.start, callIn.end,
                                callIn.by_align)>>
    /\ UNCHANGED callIn
    /\ UNCHANGED OutsideCall

NextCig == SliceCigar

SpecCig == InitCig /\ [][NextCig]_vars

RECURSIVE BasesOf(_)
\* the number of bases the spans of a map consume
BasesOf(spans) ==
    IF spans = <<>> THEN 0
    ELSE (IF Head(spans).lost THEN 0 ELSE SpanLength(Head(spans)))
         + BasesOf(Tail(spans))

Sliced5M3D5M ==
    /\ callOut # <<>>
    /\ callIn = [cigar |-> Cigar5M3D5M, start |-> 3, end |-> 8, by_align |-> FALSE]

\* the lengths of the spans of a map, a gap's as a negative number
Runs(spans) ==
    [i \in 1..Len(spans) |->
        IF spans[i].lost THEN -1 * SpanLength(spans[i]) ELSE SpanLength(spans[i])]

\* C14 as stated: the slice of "5M3D5M" by sequence positions [3, 8) holds 3
\* bases of the first run, the 3 gap columns and 2 bases of the second run,
\* and its column bounds are [3, 11).
C14_ThreeGapTwo ==
    Sliced5M3D5M
        => /\ Runs(callOut[1].map) = <<3, -3, 2>>
           /\ callOut[1].loc = <<3, 11>>

\* C14 amended: the slice of "5M3D5M" by sequence positions [3, 8) holds the
\* last 2 bases of the first run, the 3 gap columns and the first 3 bases of
\* the second run, and its column bounds are [3, 11).
C14_TwoGapThree ==
    Sliced5M3D5M
        => /\ Runs(callOut[1].map) = <<2, -3, 3>>
           /\ callOut[1].map = <<Span(0, 2), LostSpan(3), Span(2, 5)>>
           /\ callOut[1].loc = <<3, 11>>

C14_Witness == Sliced5M3D5M /\ BasesOf(callOut[1].map) = 5

----------------------------------------------------------------------------
(* FeatureCoordLevelsCache (src/src/ensembldb3/feature_level.py): the two
   class attributes are one pair of dictionaries for every instance, so every
   caller of the process reads and writes the same entries *)

\* the calls one caller makes, one after the other
MaxCalls == 2

Callers == {"c1", "c2"}

Features == {"cpg", "repeat", "gene", "est", "variation"}

Dbs == {"core_db", "var_db", "otherfeature_db"}

\* the coordinate levels the meta_coord table of a database lists for a
\* table: those of one database are not those of another
Levels(db_type, table_name) == <<db_type, table_name>>

NoLevels == <<>>

\* the entry of a species with no record in it
NoRecords == [feature \in Features |-> NoLevels]

\* the features recorded from a database of db_type, and their tables
FeatureTables(db_type) ==
    IF db_type = "core"
    THEN [cpg |-> "simple_feature", repeat |-> "repeat_feature",
          gene |-> "gene", est |-> "gene"]
    ELSE IF db_type = "var"
    THEN [variation |-> "variation_feature"]
    ELSE [est |-> "gene"]

\* _add_species_feature_levels: a record per feature of the db_type, in place
\* of the one the entry had
add_species_feature_levels(levels, db_type) ==
    [feature \in Features |->
        IF feature \in DOMAIN FeatureTables(db_type)
        THEN Levels(db_type, FeatureTables(db_type)[feature])
        ELSE levels[feature]]

\* the arguments of a call; a database is supplied (TRUE) or None (FALSE),
\* core_db always is
Request(feature_types, var_db, otherfeature_db) ==
    [feature_types |-> feature_types, var_db |-> var_db,
     otherfeature_db |-> otherfeature_db]

NoRequest == Request({}, FALSE, FALSE)

LvRequests ==
    {Request({"gene"}, FALSE, FALSE),
     Request({"est"}, FALSE, TRUE),
     Request({"est"}, FALSE, FALSE),
     Request({"variation"}, TRUE, FALSE),
     Request({"variation"}, FALSE, FALSE),
     Request({"gene", "est"}, FALSE, TRUE)}

\* a caller outside a call, having made `calls` of them
Outside(calls) ==
    [pc |-> "idle", request |-> NoRequest, outcome |-> "none",
     result |-> NoRecords, calls |-> calls]

InitLv ==
    /\ AsmIdle
    /\ SqIdle
    /\ AlnIdle
    /\ CallIdle
    /\ species_feature_levels = Unset
    /\ species_feature_dbs = Unset
    /\ lvCall = [caller \in Callers |-> Outside(0)]
    /\ lvQueried = [db \in Dbs |-> 0]

\* the caller moves to position pc
LvGoes(caller, pc) == lvCall' = [lvCall EXCEPT ![caller].pc = pc]

\* the call of the caller ends in an AssertionError
LvFails(caller) ==
    lvCall' = [lvCall EXCEPT ![caller].pc = "idle",
                             ![caller].outcome = "AssertionError"]

\* whether the block of _set_species_feature_levels for db is entered
Loads(request, db) ==
    /\ db \notin Range(Value(species_feature_dbs))
    /\ CASE db = "core_db" -> request.feature_types \cap {"cpg", "repeat", "gene"} # {}
         [] db = "var_db" -> "variation" \in request.feature_types
         [] db = "otherfeature_db" -> "est" \in request.feature_types

\* __call__, lines 129-141, and the head of _set_species_feature_levels, lines
\* 95-99: up to the queries of CoordSystem
LvCall(caller, request) ==
    /\ lvCall[caller].pc = "idle"
    /\ lvCall[caller].calls < MaxCalls
    /\ IF "variation" \in request.feature_types /\ ~request.var_db
       THEN /\ lvCall' = [lvCall EXCEPT ![caller] =
                            [pc |-> "idle", request |-> request,
                             outcome |-> "AssertionError", result |-> NoRecords,
                             calls |-> @.calls + 1]]
            /\ UNCHANGED <<species_feature_levels, species_feature_dbs>>
       ELSE /\ lvCall' = [lvCall EXCEPT ![caller] =
                            [pc |-> "core", request |-> request,
                             outcome |-> "none", result |-> NoRecords,
                             calls |-> @.calls + 1]]
            /\ IF species_feature_levels = Unset
               THEN /\ species_feature_levels' = Cached(NoRecords)
                    /\ species_feature_dbs' = Cached(<<>>)
               ELSE UNCHANGED <<species_feature_levels, species_feature_dbs>>
    /\ UNCHANGED lvQueried
    /\ UNCHANGED OutsideLv

\* the test of a block, the append of the database's name, the assertion and
\* the sending of the meta_coord query: lines 101-106, 109-115 and 118-124
LvCheck(caller, db, supplied, records, next) ==
    /\ IF Loads(lvCall[caller].request, db)
       THEN /\ species_feature_dbs' = Cached(Append(Value(species_feature_dbs), db))
            /\ IF supplied
               THEN /\ LvGoes(caller, records)
                    /\ lvQueried' = [lvQueried EXCEPT ![db] = @ + 1]
               ELSE /\ LvFails(caller)
                    /\ UNCHANGED lvQueried
       ELSE /\ LvGoes(caller, next)
            /\ UNCHANGED <<species_feature_dbs, lvQueried>>
    /\ UNCHANGED species_feature_levels
    /\ UNCHANGED OutsideLv

\* the answer of the meta_coord query and _add_species_feature_levels: lines
\* 106-107, 115-116 and 124-127
LvAdd(caller, db_type, next) ==
    /\ species_feature_levels' =
           Cached(add_species_feature_levels(Value(species_feature_levels), db_type))
    /\ LvGoes(caller, next)
    /\ UNCHANGED <<species_feature_dbs, lvQueried>>
    /\ UNCHANGED OutsideLv

\* lines 101-106
CoreCheck(caller) ==
    /\ lvCall[caller].pc = "core"
    /\ LvCheck(caller, "core_db", TRUE, "core_records", "var")

\* lines 106-107
CoreAdd(caller) ==
    /\ lvCall[caller].pc = "core_records"
    /\ LvAdd(caller, "core", "var")

\* lines 109-115
VarCheck(caller) ==
    /\ lvCall[caller].pc = "var"
    /\ LvCheck(caller, "var_db", lvCall[caller].request.var_db,
               "var_records", "otherfeature")

\* lines 115-116
VarAdd(caller) ==
    /\ lvCall[caller].pc = "var_records"
    /\ LvAdd(caller, "var", "otherfeature")

\* lines 118-124
OtherfeatureCheck(caller) ==
    /\ lvCall[caller].pc = "otherfeature"
    /\ LvCheck(caller, "otherfeature_db", lvCall[caller].request.otherfeature_db,
               "otherfeature_records", "return")

\* lines 124-127
OtherfeatureAdd(caller) ==
    /\ lvCall[caller].pc = "otherfeature_records"
    /\ LvAdd(caller, "otherfeature", "return")

\* line 143: the entry of the species, as it is at the return
LvReturn(caller) ==
    /\ lvCall[caller].pc = "return"
    /\ lvCall' = [lvCall EXCEPT ![caller].pc = "idle",
                                ![caller].outcome = "returned",
                                ![caller].result = Value(species_feature_levels)]
    /\ UNCHANGED <<species_feature_levels, species_feature_dbs, lvQueried>>
    /\ UNCHANGED OutsideLv

NextLv ==
    \E caller \in Callers :
        \/ \E request \in LvRequests : LvCall(caller, request)
        \/ CoreCheck(caller)
        \/ CoreAdd(caller)
        \/ VarCheck(caller)
        \/ VarAdd(caller)
        \/ OtherfeatureCheck(caller)
        \/ OtherfeatureAdd(caller)
        \/ LvReturn(caller)

SpecLv == InitLv /\ [][NextLv]_vars

\* what a call with the request comes to when it is the only call the process
\* ever makes
AloneOutcome(request) ==
    IF \/ "variation" \in request.feature_types /\ ~request.var_db
       \/ "est" \in request.feature_types /\ ~request.otherfeature_db
    THEN "AssertionError"
    ELSE "returned"

\* the mapping that call returns
AloneResult(request) ==
    LET core == IF request.feature_types \cap {"cpg", "repeat", "gene"} # {}
                THEN add_species_feature_levels(NoRecords, "core")
                ELSE NoRecords
        var == IF "variation" \in request.feature_types
               THEN add_species_feature_levels(core, "var")
               ELSE core
    IN IF "est" \in request.feature_types
       THEN add_species_feature_levels(var, "otherfeature")
       ELSE var

\* C15: resolutions running concurrently are independent, no class-level or
\* module-level cache being shared: in every interleaving, a call ends as it
\* ends when it runs alone, with the same result.
C15_CallsIndependent ==
    \A caller \in Callers :
        lvCall[caller].outcome # "none"
            => /\ lvCall[caller].outcome = AloneOutcome(lvCall[caller].request)
               /\ lvCall[caller].outcome = "returned"
                    => lvCall[caller].result = AloneResult(lvCall[caller].request)

\* no call is under way
LvQuiet == \A caller \in Callers : lvCall[caller].pc = "idle"

\* the databases listed as loaded for the species
LoadedDbs ==
    IF species_feature_dbs = Unset THEN {} ELSE Range(Value(species_feature_dbs))

\* every database listed as loaded was queried
ListedWereQueried == \A db \in LoadedDbs : lvQueried[db] > 0

\* the levels of a species for which the databases of dbs were loaded, loaded
\* in the order of one call that asks for all of them
LevelsOf(dbs) ==
    LET core == IF "core_db" \in dbs
                THEN add_species_feature_levels(NoRecords, "core") ELSE NoRecords
        var == IF "var_db" \in dbs
               THEN add_species_feature_levels(core, "var") ELSE core
    IN IF "otherfeature_db" \in dbs
       THEN add_species_feature_levels(var, "otherfeature") ELSE var

\* C24: the levels recorded for the feature types of a species do not depend
\* on the order of the requests: once the calls are over, the levels of every
\* feature type ('est' in particular) are those of the databases loaded, in
\* whatever order the calls loaded them.
C24_LevelsOrderFree ==
    (LvQuiet /\ species_feature_levels # Unset /\ ListedWereQueried)
        => Value(species_feature_levels) = LevelsOf(LoadedDbs)

\* C25: a call that fails because var_db or otherfeature_db was not supplied
\* leaves the shared cache unchanged: the step in which the call fails
\* changes neither the species' list of loaded databases nor its levels, so
\* that a later call that supplies the database still loads it.
C25_FailedCallLeavesCache ==
    [][\A caller \in Callers :
          (lvCall'[caller] # lvCall[caller]
              /\ lvCall'[caller].outcome = "AssertionError")
             => /\ species_feature_dbs' = species_feature_dbs
                /\ species_feature_levels' = species_feature_levels]_vars

\* whether the request supplies the database the feature's levels are in
SuppliedFor(request, feature) ==
    CASE feature = "variation" -> request.var_db
      [] feature = "est" -> request.otherfeature_db
      [] OTHER -> TRUE

\* C26: in every interleaving of calls for one species, the mapping a call
\* returns holds, when it returns, a level record for every feature type the
\* call requested and supplied a database for; and each database is queried
\* at most once.
C26_ReturnedMappingComplete ==
    /\ \A caller \in Callers :
          lvCall[caller].outcome = "returned"
             => \A feature \in lvCall[caller].request.feature_types :
                   SuppliedFor(lvCall[caller].request, feature)
                      => lvCall[caller].result[feature] # NoLevels
    /\ \A db \in Dbs : lvQueried[db] <= 1

----------------------------------------------------------------------------
(* The arithmetic of _make_ref_map (related_region.py:162-166) and of
   _make_map_from_ref (lines 191-209) on bounded blocks *)

\* the longest block
MaxBlockLen == 3

\* where the blocks start on their sequence regions
BlockStarts == {0, 2}

\* the block locations: make_location of a genomic_align row
BlockLocations ==
    {Coordinate(start, start + length, strand) :
        start \in BlockStarts, length \in 1..MaxBlockLen, strand \in Strands}

\* the intervals [lo, hi) inside [from, to]
Within(from, to) == {<<lo, hi>> \in (from..to) \X (from..to) : lo <= hi}

InitLoc ==
    /\ AsmIdle
    /\ SqIdle
    /\ AlnIdle
    /\ LvIdle
    /\ \E block \in BlockLocations :
         \/ \E span \in Within(block.start, block.end), strand \in Strands :
               callIn = [op |-> "ref", block |-> block,
                         location |-> Coordinate(span[1], span[2], strand),
                         loc |-> <<>>]
         \/ \E span \in Within(0, CoordLen(block)) :
               callIn = [op |-> "member", block |-> block,
                         location |-> NoCoordinate, loc |-> span]
    /\ callOut = <<>>

\* lines 162-166: relative_start and relative_end of the reference location
RefRange ==
    /\ callOut = <<>>
    /\ callIn.op = "ref"
    /\ callOut' = <<RelativeRange(callIn.block, callIn.location)>>
    /\ UNCHANGED callIn
    /\ UNCHANGED OutsideCall

\* lines 191-209: the location of a member for its aln_loc
MemberLoc ==
    /\ callOut = <<>>
    /\ callIn.op = "member"
    /\ callOut' = <<MemberLocation(callIn.block, callIn.loc)>>
    /\ UNCHANGED callIn
    /\ UNCHANGED OutsideCall

NextLoc == RefRange \/ MemberLoc

SpecLoc == InitLoc /\ [][NextLoc]_vars

\* C19: for a reference location inside its block, the range of sequence
\* positions passed to the slicer is as long as the reference location and
\* lies in 0..len(block); it starts at ref.start - block.start on a block of
\* strand +1 and at len(block) - (ref.start - block.start) - len(ref) on a
\* block of strand -1.
C19_ReferenceRangeInBlock ==
    (callOut # <<>> /\ callIn.op = "ref")
        => LET block == callIn.block
               ref == callIn.location
               relative_start == callOut[1][1]
               relative_end == callOut[1][2]
           IN /\ relative_end - relative_start = ref.end - ref.start
              /\ 0 <= relative_start
              /\ relative_start <= relative_end
              /\ relative_end <= block.end - block.start
              /\ block.strand = 1 => relative_start = ref.start - block.start
              /\ block.strand = -1
                    => relative_start = (block.end - block.start)
                                            - (ref.start - block.start)
                                            - (ref.end - ref.start)

\* the last base of a block of three on strand -1 is its first base, read
\* from the block's own start
C19_Witness ==
    /\ callIn.op = "ref"
    /\ callIn.block = Coordinate(2, 5, -1)
    /\ callIn.location = Coordinate(4, 5, 1)
    /\ callOut # <<>>
    /\ callOut[1] = <<0, 1>>

\* C20: for a member other than the reference whose slice holds the bases
\* [seq_lo, seq_hi) of its block, the location resolved is seq_hi - seq_lo
\* long, on the block's strand, inside the block, and starts at
\* block.start + seq_lo on a block of strand +1 and at
\* block.start + len(block) - seq_hi on a block of strand -1.
C20_MemberLocationInBlock ==
    (callOut # <<>> /\ callIn.op = "member")
        => LET block == callIn.block
               seq_lo == callIn.loc[1]
               seq_hi == callIn.loc[2]
               location == callOut[1]
           IN /\ location.end - location.start = seq_hi - seq_lo
              /\ location.strand = block.strand
              /\ block.start <= location.start
              /\ location.end <= block.end
              /\ block.strand = 1 => location.start = block.start + seq_lo
              /\ block.strand = -1
                    => location.start = block.start + (block.end - block.start) - seq_hi

\* the first base of a block of three on strand -1 is the last base of its
\* interval
C20_Witness ==
    /\ callIn.op = "member"
    /\ callIn.block = Coordinate(2, 5, -1)
    /\ callIn.loc = <<0, 1>>
    /\ callOut # <<>>
    /\ callOut[1] = Coordinate(4, 5, -1)

----------------------------------------------------------------------------
(* SyntenicRegions.__init__, related_region.py:249-268 *)

\* the most (genome, data) entries supplied to one block
MaxSupplied == 3

Genomes == {"human", "mouse", "rat"}

\* the lists of entries supplied: each entry is told by its place in the
\* list and carries the genome it belongs to
SuppliedLists == UNION {[1..n -> Genomes] : n \in 0..MaxSupplied}

\* SyntenicRegion(self, genome, dict(data), am_ref_member=...) for entry i
NewRegion(supplied, i, am_ref_member) ==
    [entry |-> i, genome |-> supplied[i], am_ref_member |-> am_ref_member]

RECURSIVE MembersLoop(_, _, _, _, _)
\* lines 255-261: the loop over the supplied entries from entry i on, with
\* the ref_member and the mems it holds on reaching i
MembersLoop(supplied, ref_genome, i, the_ref, mems) ==
    IF i > Len(supplied) THEN [ref_member |-> the_ref, mems |-> mems]
    ELSE IF supplied[i] = ref_genome
    THEN MembersLoop(supplied, ref_genome, i + 1,
                     Cached(NewRegion(supplied, i, TRUE)), mems)
    ELSE MembersLoop(supplied, ref_genome, i + 1, the_ref,
                     Append(mems, NewRegion(supplied, i, FALSE)))

\* lines 249-268: the block constructed, or the assertion of line 263
SyntenicRegionsInit(supplied, ref_genome) ==
    LET looped == MembersLoop(supplied, ref_genome, 1, Unset, <<>>)
    IN IF looped.ref_member = Unset
       THEN [kind |-> "AssertionError", members |-> <<>>]
       ELSE [kind |-> "block",
             members |-> <<Value(looped.ref_member)>> \o looped.mems]

InitNew ==
    /\ AsmIdle
    /\ SqIdle
    /\ AlnIdle
    /\ LvIdle
    /\ \E supplied \in SuppliedLists, genome \in Genomes :
          callIn = [members |-> supplied, ref_genome |-> genome]
    /\ callOut = <<>>

\* SyntenicRegions(compara, members, ref_location)
Construct ==
    /\ callOut = <<>>
    /\ callOut' = <<SyntenicRegionsInit(callIn.members, callIn.ref_genome)>>
    /\ UNCHANGED callIn
    /\ UNCHANGED OutsideCall

NextNew == Construct

SpecNew == InitNew /\ [][NextNew]_vars

\* C22: a block has exactly one reference member, the first of its members:
\* construction fails with an assertion error when no supplied entry is of
\* the reference location's genome, and otherwise the block has as many
\* members as entries were supplied.
C22_OneReferenceAllMembers ==
    callOut # <<>>
        => IF \A i \in 1..Len(callIn.members) : callIn.members[i] # callIn.ref_genome
           THEN callOut[1].kind = "AssertionError"
           ELSE /\ callOut[1].kind = "block"
                /\ callOut[1].members[1].am_ref_member
                /\ \A k \in 2..Len(callOut[1].members) :
                      ~callOut[1].members[k].am_ref_member
                /\ Len(callOut[1].members) = Len(callIn.members)

====
